---- MODULE Spec2Model ----
(***************************************************************************)
(* Model of the wealth-management supervisor chatbot                       *)
(* (src/src/oai_supervisor/main.py).                                        *)
(*                                                                         *)
(* main.py defines the six account tools, the three agents with their     *)
(* tool sets and handoff edges, and the driver loop `run`.  The managers   *)
(* (common.beneficiaries_manager, common.investment_account_manager), the  *)
(* AccountContext and the conversation engine behind Runner.run are not    *)
(* part of main.py; they are modelled from the specification (sections 3,  *)
(* 4.2 - 4.4 and 7).                                                        *)
(***************************************************************************)
EXTENDS Integers, Sequences, FiniteSets, TLC

VARIABLES
    pc,             \* where `run` stands: "input", "await" (suspended in
                    \* `await Runner.run`), "failed" (left by an exception), "done"
    current_agent, input_items, context,   \* locals of `run`
    beneficiaries, investments, next_id,   \* the two manager stores and their ids
    rendered,       \* lines printed by the current loop iteration
    engine_pc,      \* where the engine stands: "idle", "decide", "apply"
    last_actions,   \* the oracle's action list of the current or last engine run
    pending,        \* the actions of that list not applied yet
    run_agent,      \* owner inside the engine run
    run_items,      \* items the engine run produced so far
    turn_world      \* the world as it was when the engine run started

vars == <<pc, current_agent, input_items, context, beneficiaries, investments, next_id,
          rendered, engine_pc, last_actions, pending, run_agent, run_items, turn_world>>

(***************************************************************************)
(* Bounds of the model.                                                    *)
(***************************************************************************)
\* longest conversation history explored by Spec (items)
MaxHistory == 6
\* longest action list the oracle returns in one turn
MaxActions == 3
\* longest conversation history explored by SpecRT (items)
MaxHistoryRT == 10
\* longest action list the oracle returns in one turn of SpecRT
MaxActionsRT == 5

(***************************************************************************)
(* Input domains.                                                          *)
(***************************************************************************)
Accounts == {"42", "7"}
RecordIds == {1, 2}
NoAccount == "None"
NoArgs == [none |-> TRUE]
\* what the user types is a sequence of Unicode code points
UserText == <<104, 105>>                        \* "hi"
AgentText == "ok"
ExitInputs ==
    {<<101, 120, 105, 116>>,                    \* "exit"
     <<69, 78, 68>>,                            \* "END"
     <<81, 117, 105, 116>>,                     \* "Quit"
     <<69, 88, 73, 84>>,                        \* "EXIT"
     <<101, 78, 100>>}                          \* "eNd"
UserInputs == ExitInputs \cup {UserText}

(***************************************************************************)
(* Agents: names, tool sets, handoff edges.                                *)
(***************************************************************************)
supervisor_agent == "supervisor"
beneficiary_agent == "beneficiary_agent"
investment_agent == "investment_agent"

Agents == {supervisor_agent, beneficiary_agent, investment_agent}

BeneficiaryTools == {"list_beneficiaries", "add_beneficiaries", "delete_beneficiaries"}
InvestmentTools == {"list_investments", "open_investment", "close_investment"}
ToolNames == BeneficiaryTools \cup InvestmentTools

\* variant: every agent carries every tool
Tools_Shared(a) == BeneficiaryTools \cup InvestmentTools

\* variant: the specialists' tools are also given to the supervisor
Tools_OnSupervisor(a) ==
    IF a = beneficiary_agent THEN BeneficiaryTools
    ELSE IF a = investment_agent THEN InvestmentTools
    ELSE BeneficiaryTools \cup InvestmentTools

\* function tools of each agent; the supervisor declares none (its tools
\* argument is commented out) and the tools of the external MCP server
\* attached to it are outside the model
Tools(a) ==
    IF a = beneficiary_agent THEN BeneficiaryTools
    ELSE IF a = investment_agent THEN InvestmentTools
    ELSE {}

\* variant: every agent may hand off to every other agent
Handoffs_AllToAll(a) == Agents \ {a}

\* variant: every agent is also reachable from itself
Handoffs_WithSelf(a) ==
    IF a = supervisor_agent THEN {supervisor_agent, beneficiary_agent, investment_agent}
    ELSE {a, supervisor_agent}

\* variant: the beneficiary agent may also hand off to the investment agent
Handoffs_Chain(a) ==
    IF a = supervisor_agent THEN {beneficiary_agent, investment_agent}
    ELSE IF a = beneficiary_agent THEN {supervisor_agent, investment_agent}
    ELSE {supervisor_agent}

Handoffs(a) ==
    IF a = supervisor_agent THEN {beneficiary_agent, investment_agent}
    ELSE {supervisor_agent}

(***************************************************************************)
(* Manager stores: account id -> ordered sequence of records.              *)
(***************************************************************************)
EmptyStore == [a \in Accounts |-> <<>>]

HasRecord(store, acct, id) == \E i \in DOMAIN store[acct] : store[acct][i].id = id

RemoveRecord(recs, id) == SelectSeq(recs, LAMBDA r : r.id # id)

\* variant: every beneficiary gets the same id
add_beneficiary_FixedId(store, acct, first, last, rel, id) ==
    [store EXCEPT ![acct] = Append(@, [id |-> 1, first_name |-> first,
                                       last_name |-> last, relationship |-> rel])]

add_beneficiary(store, acct, first, last, rel, id) ==
    [store EXCEPT ![acct] = Append(@, [id |-> id, first_name |-> first,
                                       last_name |-> last, relationship |-> rel])]

mgr_list_beneficiaries(store, acct) == store[acct]

delete_beneficiary(store, acct, id) == [store EXCEPT ![acct] = RemoveRecord(@, id)]

add_investment_account(store, acct, name, balance, id) ==
    [store EXCEPT ![acct] = Append(@, [id |-> id, name |-> name, balance |-> balance])]

list_investment_accounts(store, acct) == store[acct]

delete_investment_account(store, acct, id) == [store EXCEPT ![acct] = RemoveRecord(@, id)]

(***************************************************************************)
(* Tools.  A world is the state a tool can touch:                          *)
(*   [account_id, beneficiaries, investments, next_id].                    *)
(* A tool returns the new world and its result [status, value].            *)
(***************************************************************************)
World(acct, bene, inv, nid) ==
    [account_id |-> acct, beneficiaries |-> bene, investments |-> inv, next_id |-> nid]

Ok(value) == [status |-> "ok", value |-> value]
Failed(kind) == [status |-> kind, value |-> <<>>]

SetAccount(w, account_id) == [w EXCEPT !.account_id = account_id]

\* variant: first and last name reach the manager in the wrong order
add_beneficiaries_Swapped(w, args) ==
    LET w1 == SetAccount(w, args.account_id)
    IN [world |-> [w1 EXCEPT
                    !.beneficiaries = add_beneficiary(@, args.account_id, args.last_name,
                                                      args.first_name, args.relationship,
                                                      w.next_id),
                    !.next_id = @ + 1],
        result |-> Ok(<<>>)]

\* variant: the account is recorded in the context only for its first beneficiary
add_beneficiaries_ContextIfNew(w, args) ==
    LET w1 == IF w.beneficiaries[args.account_id] = <<>>
              THEN SetAccount(w, args.account_id) ELSE w
    IN [world |-> [w1 EXCEPT
                    !.beneficiaries = add_beneficiary(@, args.account_id, args.first_name,
                                                      args.last_name, args.relationship,
                                                      w.next_id),
                    !.next_id = @ + 1],
        result |-> Ok(<<>>)]

add_beneficiaries(w, args) ==
    LET w1 == SetAccount(w, args.account_id)
    IN [world |-> [w1 EXCEPT
                    !.beneficiaries = add_beneficiary(@, args.account_id, args.first_name,
                                                      args.last_name, args.relationship,
                                                      w.next_id),
                    !.next_id = @ + 1],
        result |-> Ok(<<>>)]

list_beneficiaries(w, args) ==
    LET w1 == SetAccount(w, args.account_id)
    IN [world |-> w1,
        result |-> Ok(mgr_list_beneficiaries(w1.beneficiaries, args.account_id))]

\* variant: a failure of the manager is swallowed by the tool
delete_beneficiaries_Swallow(w, args) ==
    LET w1 == SetAccount(w, args.account_id)
    IN [world |-> [w1 EXCEPT !.beneficiaries =
                        delete_beneficiary(@, args.account_id, args.beneficiary_id)],
        result |-> Ok(<<>>)]

delete_beneficiaries(w, args) ==
    LET w1 == SetAccount(w, args.account_id)
    IN IF HasRecord(w1.beneficiaries, args.account_id, args.beneficiary_id)
       THEN [world |-> [w1 EXCEPT !.beneficiaries =
                            delete_beneficiary(@, args.account_id, args.beneficiary_id)],
             result |-> Ok(<<>>)]
       ELSE [world |-> w1, result |-> Failed("ToolExecutionError")]

\* variant: the investment is opened without recording the account in the context
open_investment_NoContext(w, args) ==
    [world |-> [w EXCEPT
                    !.investments = add_investment_account(@, args.account_id, args.name,
                                                           args.balance, w.next_id),
                    !.next_id = @ + 1],
     result |-> Ok(<<>>)]

\* variant: name and balance reach the manager in the wrong order
open_investment_Swapped(w, args) ==
    LET w1 == SetAccount(w, args.account_id)
    IN [world |-> [w1 EXCEPT
                    !.investments = add_investment_account(@, args.account_id, args.balance,
                                                           args.name, w.next_id),
                    !.next_id = @ + 1],
        result |-> Ok(<<>>)]

open_investment(w, args) ==
    LET w1 == SetAccount(w, args.account_id)
    IN [world |-> [w1 EXCEPT
                    !.investments = add_investment_account(@, args.account_id, args.name,
                                                           args.balance, w.next_id),
                    !.next_id = @ + 1],
        result |-> Ok(<<>>)]

list_investments(w, args) ==
    LET w1 == SetAccount(w, args.account_id)
    IN [world |-> w1,
        result |-> Ok(list_investment_accounts(w1.investments, args.account_id))]

\* variant: the account is recorded in the context only once the manager succeeded
close_investment_ContextAfter(w, args) ==
    IF HasRecord(w.investments, args.account_id, args.investment_id)
    THEN [world |-> [SetAccount(w, args.account_id) EXCEPT !.investments =
                        delete_investment_account(@, args.account_id, args.investment_id)],
          result |-> Ok(<<>>)]
    ELSE [world |-> w, result |-> Failed("ToolExecutionError")]

close_investment(w, args) ==
    LET w1 == SetAccount(w, args.account_id)
    IN IF HasRecord(w1.investments, args.account_id, args.investment_id)
       THEN [world |-> [w1 EXCEPT !.investments =
                            delete_investment_account(@, args.account_id, args.investment_id)],
             result |-> Ok(<<>>)]
       ELSE [world |-> w1, result |-> Failed("ToolExecutionError")]

ExecuteTool(name, w, args) ==
    CASE name = "add_beneficiaries" -> add_beneficiaries(w, args)
      [] name = "list_beneficiaries" -> list_beneficiaries(w, args)
      [] name = "delete_beneficiaries" -> delete_beneficiaries(w, args)
      [] name = "open_investment" -> open_investment(w, args)
      [] name = "list_investments" -> list_investments(w, args)
      [] name = "close_investment" -> close_investment(w, args)

(***************************************************************************)
(* Oracle actions and history items.                                       *)
(***************************************************************************)
EmitMessage(text) == [type |-> "EmitMessage", name |-> text, args |-> NoArgs]
InvokeTool(name, args) == [type |-> "InvokeTool", name |-> name, args |-> args]
Handoff(target) == [type |-> "Handoff", name |-> target, args |-> NoArgs]

Item(kind, agent, name, args, result) ==
    [kind |-> kind, agent |-> agent, name |-> name, args |-> args,
     status |-> result.status, value |-> result.value]

UserItem(text) == Item("user", "user", "content", [content |-> text], Ok(<<>>))

BeneficiaryArgs ==
    {[account_id |-> a, first_name |-> "A", last_name |-> "B", relationship |-> "spouse"] :
        a \in Accounts}
InvestmentArgs ==
    {[account_id |-> a, name |-> "Growth", balance |-> "1000"] : a \in Accounts}
ListArgs == {[account_id |-> a] : a \in Accounts}
DeleteBeneficiaryArgs ==
    {[account_id |-> a, beneficiary_id |-> i] : a \in Accounts, i \in RecordIds}
CloseInvestmentArgs ==
    {[account_id |-> a, investment_id |-> i] : a \in Accounts, i \in RecordIds}

ToolArgs(name) ==
    CASE name = "add_beneficiaries" -> BeneficiaryArgs
      [] name = "list_beneficiaries" -> ListArgs
      [] name = "delete_beneficiaries" -> DeleteBeneficiaryArgs
      [] name = "open_investment" -> InvestmentArgs
      [] name = "list_investments" -> ListArgs
      [] name = "close_investment" -> CloseInvestmentArgs

OracleActions ==
    {EmitMessage(AgentText)}
    \cup {Handoff(t) : t \in Agents}
    \cup UNION {{InvokeTool(n, x) : x \in ToolArgs(n)} : n \in ToolNames}

\* number of history items an action appends
ItemCount(a) == IF a.type = "InvokeTool" THEN 2 ELSE 1

\* action lists of at most n actions over alphabet, appending at most w items
RECURSIVE ActionLists(_, _, _)
ActionLists(alphabet, n, w) ==
    IF n = 0 \/ w <= 0 THEN {<<>>}
    ELSE {<<>>} \cup
         UNION {{<<a>> \o l : l \in ActionLists(alphabet, n - 1, w - ItemCount(a))} :
                    a \in {b \in alphabet : ItemCount(b) <= w}}

(***************************************************************************)
(* Conversation engine (Runner.run): applies the oracle's actions in       *)
(* order against the current owner.                                        *)
(* An engine state is [agent, world, new_items].                           *)
(***************************************************************************)
\* variant: emitting a message also forgets the account
ApplyEmitMessage_ForgetAccount(st, a) ==
    [st EXCEPT !.world = SetAccount(@, NoAccount),
               !.new_items = Append(@, Item("message", st.agent, a.name, NoArgs, Ok(<<>>)))]

ApplyEmitMessage(st, a) ==
    [st EXCEPT !.new_items = Append(@, Item("message", st.agent, a.name, NoArgs, Ok(<<>>)))]

ApplyInvokeTool(st, a) ==
    LET call == Item("tool_call", st.agent, a.name, a.args, Ok(<<>>))
    IN IF a.name \notin Tools(st.agent)
       THEN [st EXCEPT !.new_items = @ \o
                <<call, Item("tool_output", st.agent, a.name, NoArgs, Failed("UnknownTool"))>>]
       ELSE LET r == ExecuteTool(a.name, st.world, a.args)
            IN [st EXCEPT !.world = r.world,
                          !.new_items = @ \o
                <<call, Item("tool_output", st.agent, a.name, NoArgs, r.result)>>]

ApplyHandoff(st, a) ==
    IF a.name \in Handoffs(st.agent)
    THEN [st EXCEPT !.agent = a.name,
                    !.new_items = Append(@, Item("handoff", st.agent, a.name, NoArgs, Ok(<<>>)))]
    ELSE [st EXCEPT !.new_items =
                Append(@, Item("failure", st.agent, a.name, NoArgs, Failed("InvalidHandoff")))]

ApplyAction(st, a) ==
    CASE a.type = "EmitMessage" -> ApplyEmitMessage(st, a)
      [] a.type = "InvokeTool" -> ApplyInvokeTool(st, a)
      [] a.type = "Handoff" -> ApplyHandoff(st, a)

RECURSIVE ApplyActions(_, _)
ApplyActions(st, acts) ==
    IF acts = <<>> THEN st
    ELSE ApplyActions(ApplyAction(st, Head(acts)), Tail(acts))

\* result of one engine run: [agent (last agent), world, new_items]
RunnerRun(agent, w, acts) ==
    ApplyActions([agent |-> agent, world |-> w, new_items |-> <<>>], acts)

to_input_list(items, result) == items \o result.new_items

(***************************************************************************)
(* Driver loop `run`.                                                      *)
(***************************************************************************)
\* str.lower() works on code points.  The tables below are the lower-case
\* mapping and the Cased and Case_Ignorable properties of Unicode 14.0.0,
\* the version of the interpreter's character database.

\* <<first, last, step, delta>>: the code points first, first + step, ..., last
\* have the single lower-case code point at distance delta
LowerRuns ==
    {<<65, 90, 1, 32>>, <<192, 214, 1, 32>>, <<216, 222, 1, 32>>,
     <<256, 302, 2, 1>>, <<306, 310, 2, 1>>, <<313, 327, 2, 1>>,
     <<330, 374, 2, 1>>, <<376, 376, 1, -121>>, <<377, 381, 2, 1>>,
     <<385, 385, 1, 210>>, <<386, 388, 2, 1>>, <<390, 390, 1, 206>>,
     <<391, 391, 1, 1>>, <<393, 394, 1, 205>>, <<395, 395, 1, 1>>,
     <<398, 398, 1, 79>>, <<399, 399, 1, 202>>, <<400, 400, 1, 203>>,
     <<401, 401, 1, 1>>, <<403, 403, 1, 205>>, <<404, 404, 1, 207>>,
     <<406, 406, 1, 211>>, <<407, 407, 1, 209>>, <<408, 408, 1, 1>>,
     <<412, 412, 1, 211>>, <<413, 413, 1, 213>>, <<415, 415, 1, 214>>,
     <<416, 420, 2, 1>>, <<422, 422, 1, 218>>, <<423, 423, 1, 1>>,
     <<425, 425, 1, 218>>, <<428, 428, 1, 1>>, <<430, 430, 1, 218>>,
     <<431, 431, 1, 1>>, <<433, 434, 1, 217>>, <<435, 437, 2, 1>>,
     <<439, 439, 1, 219>>, <<440, 440, 1, 1>>, <<444, 444, 1, 1>>,
     <<452, 452, 1, 2>>, <<453, 453, 1, 1>>, <<455, 455, 1, 2>>,
     <<456, 456, 1, 1>>, <<458, 458, 1, 2>>, <<459, 475, 2, 1>>,
     <<478, 494, 2, 1>>, <<497, 497, 1, 2>>, <<498, 500, 2, 1>>,
     <<502, 502, 1, -97>>, <<503, 503, 1, -56>>, <<504, 542, 2, 1>>,
     <<544, 544, 1, -130>>, <<546, 562, 2, 1>>, <<570, 570, 1, 10795>>,
     <<571, 571, 1, 1>>, <<573, 573, 1, -163>>, <<574, 574, 1, 10792>>,
     <<577, 577, 1, 1>>, <<579, 579, 1, -195>>, <<580, 580, 1, 69>>,
     <<581, 581, 1, 71>>, <<582, 590, 2, 1>>, <<880, 882, 2, 1>>,
     <<886, 886, 1, 1>>, <<895, 895, 1, 116>>, <<902, 902, 1, 38>>,
     <<904, 906, 1, 37>>, <<908, 908, 1, 64>>, <<910, 911, 1, 63>>,
     <<913, 929, 1, 32>>, <<931, 939, 1, 32>>, <<975, 975, 1, 8>>,
     <<984, 1006, 2, 1>>, <<1012, 1012, 1, -60>>, <<1015, 1015, 1, 1>>,
     <<1017, 1017, 1, -7>>, <<1018, 1018, 1, 1>>, <<1021, 1023, 1, -130>>,
     <<1024, 1039, 1, 80>>, <<1040, 1071, 1, 32>>, <<1120, 1152, 2, 1>>,
     <<1162, 1214, 2, 1>>, <<1216, 1216, 1, 15>>, <<1217, 1229, 2, 1>>,
     <<1232, 1326, 2, 1>>, <<1329, 1366, 1, 48>>, <<4256, 4293, 1, 7264>>,
     <<4295, 4295, 1, 7264>>, <<4301, 4301, 1, 7264>>,
     <<5024, 5103, 1, 38864>>, <<5104, 5109, 1, 8>>, <<7312, 7354, 1, -3008>>,
     <<7357, 7359, 1, -3008>>, <<7680, 7828, 2, 1>>, <<7838, 7838, 1, -7615>>,
     <<7840, 7934, 2, 1>>, <<7944, 7951, 1, -8>>, <<7960, 7965, 1, -8>>,
     <<7976, 7983, 1, -8>>, <<7992, 7999, 1, -8>>, <<8008, 8013, 1, -8>>,
     <<8025, 8031, 2, -8>>, <<8040, 8047, 1, -8>>, <<8072, 8079, 1, -8>>,
     <<8088, 8095, 1, -8>>, <<8104, 8111, 1, -8>>, <<8120, 8121, 1, -8>>,
     <<8122, 8123, 1, -74>>, <<8124, 8124, 1, -9>>, <<8136, 8139, 1, -86>>,
     <<8140, 8140, 1, -9>>, <<8152, 8153, 1, -8>>, <<8154, 8155, 1, -100>>,
     <<8168, 8169, 1, -8>>, <<8170, 8171, 1, -112>>, <<8172, 8172, 1, -7>>,
     <<8184, 8185, 1, -128>>, <<8186, 8187, 1, -126>>, <<8188, 8188, 1, -9>>,
     <<8486, 8486, 1, -7517>>, <<8490, 8490, 1, -8383>>,
     <<8491, 8491, 1, -8262>>, <<8498, 8498, 1, 28>>, <<8544, 8559, 1, 16>>,
     <<8579, 8579, 1, 1>>, <<9398, 9423, 1, 26>>, <<11264, 11311, 1, 48>>,
     <<11360, 11360, 1, 1>>, <<11362, 11362, 1, -10743>>,
     <<11363, 11363, 1, -3814>>, <<11364, 11364, 1, -10727>>,
     <<11367, 11371, 2, 1>>, <<11373, 11373, 1, -10780>>,
     <<11374, 11374, 1, -10749>>, <<11375, 11375, 1, -10783>>,
     <<11376, 11376, 1, -10782>>, <<11378, 11378, 1, 1>>,
     <<11381, 11381, 1, 1>>, <<11390, 11391, 1, -10815>>,
     <<11392, 11490, 2, 1>>, <<11499, 11501, 2, 1>>, <<11506, 11506, 1, 1>>,
     <<42560, 42604, 2, 1>>, <<42624, 42650, 2, 1>>, <<42786, 42798, 2, 1>>,
     <<42802, 42862, 2, 1>>, <<42873, 42875, 2, 1>>,
     <<42877, 42877, 1, -35332>>, <<42878, 42886, 2, 1>>,
     <<42891, 42891, 1, 1>>, <<42893, 42893, 1, -42280>>,
     <<42896, 42898, 2, 1>>, <<42902, 42920, 2, 1>>,
     <<42922, 42922, 1, -42308>>, <<42923, 42923, 1, -42319>>,
     <<42924, 42924, 1, -42315>>, <<42925, 42925, 1, -42305>>,
     <<42926, 42926, 1, -42308>>, <<42928, 42928, 1, -42258>>,
     <<42929, 42929, 1, -42282>>, <<42930, 42930, 1, -42261>>,
     <<42931, 42931, 1, 928>>, <<42932, 42946, 2, 1>>,
     <<42948, 42948, 1, -48>>, <<42949, 42949, 1, -42307>>,
     <<42950, 42950, 1, -35384>>, <<42951, 42953, 2, 1>>,
     <<42960, 42960, 1, 1>>, <<42966, 42968, 2, 1>>, <<42997, 42997, 1, 1>>,
     <<65313, 65338, 1, 32>>, <<66560, 66599, 1, 40>>,
     <<66736, 66771, 1, 40>>, <<66928, 66938, 1, 39>>,
     <<66940, 66954, 1, 39>>, <<66956, 66962, 1, 39>>,
     <<66964, 66965, 1, 39>>, <<68736, 68786, 1, 64>>,
     <<71840, 71871, 1, 32>>, <<93760, 93791, 1, 32>>,
     <<125184, 125217, 1, 34>>}

\* <<first, last>>: ranges of the case-ignorable code points
CaseIgnorableRanges ==
    {<<39, 39>>, <<46, 46>>, <<58, 58>>, <<94, 94>>, <<96, 96>>, <<168, 168>>,
     <<173, 173>>, <<175, 175>>, <<180, 180>>, <<183, 184>>, <<688, 879>>,
     <<884, 885>>, <<890, 890>>, <<900, 901>>, <<903, 903>>, <<1155, 1161>>,
     <<1369, 1369>>, <<1375, 1375>>, <<1425, 1469>>, <<1471, 1471>>,
     <<1473, 1474>>, <<1476, 1477>>, <<1479, 1479>>, <<1524, 1524>>,
     <<1536, 1541>>, <<1552, 1562>>, <<1564, 1564>>, <<1600, 1600>>,
     <<1611, 1631>>, <<1648, 1648>>, <<1750, 1757>>, <<1759, 1768>>,
     <<1770, 1773>>, <<1807, 1807>>, <<1809, 1809>>, <<1840, 1866>>,
     <<1958, 1968>>, <<2027, 2037>>, <<2042, 2042>>, <<2045, 2045>>,
     <<2070, 2093>>, <<2137, 2139>>, <<2184, 2184>>, <<2192, 2193>>,
     <<2200, 2207>>, <<2249, 2306>>, <<2362, 2362>>, <<2364, 2364>>,
     <<2369, 2376>>, <<2381, 2381>>, <<2385, 2391>>, <<2402, 2403>>,
     <<2417, 2417>>, <<2433, 2433>>, <<2492, 2492>>, <<2497, 2500>>,
     <<2509, 2509>>, <<2530, 2531>>, <<2558, 2558>>, <<2561, 2562>>,
     <<2620, 2620>>, <<2625, 2626>>, <<2631, 2632>>, <<2635, 2637>>,
     <<2641, 2641>>, <<2672, 2673>>, <<2677, 2677>>, <<2689, 2690>>,
     <<2748, 2748>>, <<2753, 2757>>, <<2759, 2760>>, <<2765, 2765>>,
     <<2786, 2787>>, <<2810, 2815>>, <<2817, 2817>>, <<2876, 2876>>,
     <<2879, 2879>>, <<2881, 2884>>, <<2893, 2893>>, <<2901, 2902>>,
     <<2914, 2915>>, <<2946, 2946>>, <<3008, 3008>>, <<3021, 3021>>,
     <<3072, 3072>>, <<3076, 3076>>, <<3132, 3132>>, <<3134, 3136>>,
     <<3142, 3144>>, <<3146, 3149>>, <<3157, 3158>>, <<3170, 3171>>,
     <<3201, 3201>>, <<3260, 3260>>, <<3263, 3263>>, <<3270, 3270>>,
     <<3276, 3277>>, <<3298, 3299>>, <<3328, 3329>>, <<3387, 3388>>,
     <<3393, 3396>>, <<3405, 3405>>, <<3426, 3427>>, <<3457, 3457>>,
     <<3530, 3530>>, <<3538, 3540>>, <<3542, 3542>>, <<3633, 3633>>,
     <<3636, 3642>>, <<3654, 3662>>, <<3761, 3761>>, <<3764, 3772>>,
     <<3782, 3782>>, <<3784, 3789>>, <<3864, 3865>>, <<3893, 3893>>,
     <<3895, 3895>>, <<3897, 3897>>, <<3953, 3966>>, <<3968, 3972>>,
     <<3974, 3975>>, <<3981, 3991>>, <<3993, 4028>>, <<4038, 4038>>,
     <<4141, 4144>>, <<4146, 4151>>, <<4153, 4154>>, <<4157, 4158>>,
     <<4184, 4185>>, <<4190, 4192>>, <<4209, 4212>>, <<4226, 4226>>,
     <<4229, 4230>>, <<4237, 4237>>, <<4253, 4253>>, <<4348, 4348>>,
     <<4957, 4959>>, <<5906, 5908>>, <<5938, 5939>>, <<5970, 5971>>,
     <<6002, 6003>>, <<6068, 6069>>, <<6071, 6077>>, <<6086, 6086>>,
     <<6089, 6099>>, <<6103, 6103>>, <<6109, 6109>>, <<6155, 6159>>,
     <<6211, 6211>>, <<6277, 6278>>, <<6313, 6313>>, <<6432, 6434>>,
     <<6439, 6440>>, <<6450, 6450>>, <<6457, 6459>>, <<6679, 6680>>,
     <<6683, 6683>>, <<6742, 6742>>, <<6744, 6750>>, <<6752, 6752>>,
     <<6754, 6754>>, <<6757, 6764>>, <<6771, 6780>>, <<6783, 6783>>,
     <<6823, 6823>>, <<6832, 6862>>, <<6912, 6915>>, <<6964, 6964>>,
     <<6966, 6970>>, <<6972, 6972>>, <<6978, 6978>>, <<7019, 7027>>,
     <<7040, 7041>>, <<7074, 7077>>, <<7080, 7081>>, <<7083, 7085>>,
     <<7142, 7142>>, <<7144, 7145>>, <<7149, 7149>>, <<7151, 7153>>,
     <<7212, 7219>>, <<7222, 7223>>, <<7288, 7293>>, <<7376, 7378>>,
     <<7380, 7392>>, <<7394, 7400>>, <<7405, 7405>>, <<7412, 7412>>,
     <<7416, 7417>>, <<7468, 7530>>, <<7544, 7544>>, <<7579, 7679>>,
     <<8125, 8125>>, <<8127, 8129>>, <<8141, 8143>>, <<8157, 8159>>,
     <<8173, 8175>>, <<8189, 8190>>, <<8203, 8207>>, <<8216, 8217>>,
     <<8228, 8228>>, <<8231, 8231>>, <<8234, 8238>>, <<8288, 8292>>,
     <<8294, 8303>>, <<8305, 8305>>, <<8319, 8319>>, <<8336, 8348>>,
     <<8400, 8432>>, <<11388, 11389>>, <<11503, 11505>>, <<11631, 11631>>,
     <<11647, 11647>>, <<11744, 11775>>, <<11823, 11823>>, <<12293, 12293>>,
     <<12330, 12333>>, <<12337, 12341>>, <<12347, 12347>>, <<12441, 12446>>,
     <<12540, 12542>>, <<40981, 40981>>, <<42232, 42237>>, <<42508, 42508>>,
     <<42607, 42610>>, <<42612, 42621>>, <<42623, 42623>>, <<42652, 42655>>,
     <<42736, 42737>>, <<42752, 42785>>, <<42864, 42864>>, <<42888, 42890>>,
     <<42994, 42996>>, <<43000, 43001>>, <<43010, 43010>>, <<43014, 43014>>,
     <<43019, 43019>>, <<43045, 43046>>, <<43052, 43052>>, <<43204, 43205>>,
     <<43232, 43249>>, <<43263, 43263>>, <<43302, 43309>>, <<43335, 43345>>,
     <<43392, 43394>>, <<43443, 43443>>, <<43446, 43449>>, <<43452, 43453>>,
     <<43471, 43471>>, <<43493, 43494>>, <<43561, 43566>>, <<43569, 43570>>,
     <<43573, 43574>>, <<43587, 43587>>, <<43596, 43596>>, <<43632, 43632>>,
     <<43644, 43644>>, <<43696, 43696>>, <<43698, 43700>>, <<43703, 43704>>,
     <<43710, 43711>>, <<43713, 43713>>, <<43741, 43741>>, <<43756, 43757>>,
     <<43763, 43764>>, <<43766, 43766>>, <<43867, 43871>>, <<43881, 43883>>,
     <<44005, 44005>>, <<44008, 44008>>, <<44013, 44013>>, <<64286, 64286>>,
     <<64434, 64450>>, <<65024, 65039>>, <<65043, 65043>>, <<65056, 65071>>,
     <<65106, 65106>>, <<65109, 65109>>, <<65279, 65279>>, <<65287, 65287>>,
     <<65294, 65294>>, <<65306, 65306>>, <<65342, 65342>>, <<65344, 65344>>,
     <<65392, 65392>>, <<65438, 65439>>, <<65507, 65507>>, <<65529, 65531>>,
     <<66045, 66045>>, <<66272, 66272>>, <<66422, 66426>>, <<67456, 67461>>,
     <<67463, 67504>>, <<67506, 67514>>, <<68097, 68099>>, <<68101, 68102>>,
     <<68108, 68111>>, <<68152, 68154>>, <<68159, 68159>>, <<68325, 68326>>,
     <<68900, 68903>>, <<69291, 69292>>, <<69446, 69456>>, <<69506, 69509>>,
     <<69633, 69633>>, <<69688, 69702>>, <<69744, 69744>>, <<69747, 69748>>,
     <<69759, 69761>>, <<69811, 69814>>, <<69817, 69818>>, <<69821, 69821>>,
     <<69826, 69826>>, <<69837, 69837>>, <<69888, 69890>>, <<69927, 69931>>,
     <<69933, 69940>>, <<70003, 70003>>, <<70016, 70017>>, <<70070, 70078>>,
     <<70089, 70092>>, <<70095, 70095>>, <<70191, 70193>>, <<70196, 70196>>,
     <<70198, 70199>>, <<70206, 70206>>, <<70367, 70367>>, <<70371, 70378>>,
     <<70400, 70401>>, <<70459, 70460>>, <<70464, 70464>>, <<70502, 70508>>,
     <<70512, 70516>>, <<70712, 70719>>, <<70722, 70724>>, <<70726, 70726>>,
     <<70750, 70750>>, <<70835, 70840>>, <<70842, 70842>>, <<70847, 70848>>,
     <<70850, 70851>>, <<71090, 71093>>, <<71100, 71101>>, <<71103, 71104>>,
     <<71132, 71133>>, <<71219, 71226>>, <<71229, 71229>>, <<71231, 71232>>,
     <<71339, 71339>>, <<71341, 71341>>, <<71344, 71349>>, <<71351, 71351>>,
     <<71453, 71455>>, <<71458, 71461>>, <<71463, 71467>>, <<71727, 71735>>,
     <<71737, 71738>>, <<71995, 71996>>, <<71998, 71998>>, <<72003, 72003>>,
     <<72148, 72151>>, <<72154, 72155>>, <<72160, 72160>>, <<72193, 72202>>,
     <<72243, 72248>>, <<72251, 72254>>, <<72263, 72263>>, <<72273, 72278>>,
     <<72281, 72283>>, <<72330, 72342>>, <<72344, 72345>>, <<72752, 72758>>,
     <<72760, 72765>>, <<72767, 72767>>, <<72850, 72871>>, <<72874, 72880>>,
     <<72882, 72883>>, <<72885, 72886>>, <<73009, 73014>>, <<73018, 73018>>,
     <<73020, 73021>>, <<73023, 73029>>, <<73031, 73031>>, <<73104, 73105>>,
     <<73109, 73109>>, <<73111, 73111>>, <<73459, 73460>>, <<78896, 78904>>,
     <<92912, 92916>>, <<92976, 92982>>, <<92992, 92995>>, <<94031, 94031>>,
     <<94095, 94111>>, <<94176, 94177>>, <<94179, 94180>>, <<110576, 110579>>,
     <<110581, 110587>>, <<110589, 110590>>, <<113821, 113822>>,
     <<113824, 113827>>, <<118528, 118573>>, <<118576, 118598>>,
     <<119143, 119145>>, <<119155, 119170>>, <<119173, 119179>>,
     <<119210, 119213>>, <<119362, 119364>>, <<121344, 121398>>,
     <<121403, 121452>>, <<121461, 121461>>, <<121476, 121476>>,
     <<121499, 121503>>, <<121505, 121519>>, <<122880, 122886>>,
     <<122888, 122904>>, <<122907, 122913>>, <<122915, 122916>>,
     <<122918, 122922>>, <<123184, 123197>>, <<123566, 123566>>,
     <<123628, 123631>>, <<125136, 125142>>, <<125252, 125259>>,
     <<127995, 127999>>, <<917505, 917505>>, <<917536, 917631>>,
     <<917760, 917999>>}

\* <<first, last>>: ranges of the cased code points that are not case-ignorable
CasedRanges ==
    {<<65, 90>>, <<97, 122>>, <<170, 170>>, <<181, 181>>, <<186, 186>>,
     <<192, 214>>, <<216, 246>>, <<248, 442>>, <<444, 447>>, <<452, 659>>,
     <<661, 687>>, <<880, 883>>, <<886, 887>>, <<891, 893>>, <<895, 895>>,
     <<902, 902>>, <<904, 906>>, <<908, 908>>, <<910, 929>>, <<931, 1013>>,
     <<1015, 1153>>, <<1162, 1327>>, <<1329, 1366>>, <<1376, 1416>>,
     <<4256, 4293>>, <<4295, 4295>>, <<4301, 4301>>, <<4304, 4346>>,
     <<4349, 4351>>, <<5024, 5109>>, <<5112, 5117>>, <<7296, 7304>>,
     <<7312, 7354>>, <<7357, 7359>>, <<7424, 7467>>, <<7531, 7543>>,
     <<7545, 7578>>, <<7680, 7957>>, <<7960, 7965>>, <<7968, 8005>>,
     <<8008, 8013>>, <<8016, 8023>>, <<8025, 8025>>, <<8027, 8027>>,
     <<8029, 8029>>, <<8031, 8061>>, <<8064, 8116>>, <<8118, 8124>>,
     <<8126, 8126>>, <<8130, 8132>>, <<8134, 8140>>, <<8144, 8147>>,
     <<8150, 8155>>, <<8160, 8172>>, <<8178, 8180>>, <<8182, 8188>>,
     <<8450, 8450>>, <<8455, 8455>>, <<8458, 8467>>, <<8469, 8469>>,
     <<8473, 8477>>, <<8484, 8484>>, <<8486, 8486>>, <<8488, 8488>>,
     <<8490, 8493>>, <<8495, 8500>>, <<8505, 8505>>, <<8508, 8511>>,
     <<8517, 8521>>, <<8526, 8526>>, <<8544, 8575>>, <<8579, 8580>>,
     <<9398, 9449>>, <<11264, 11387>>, <<11390, 11492>>, <<11499, 11502>>,
     <<11506, 11507>>, <<11520, 11557>>, <<11559, 11559>>, <<11565, 11565>>,
     <<42560, 42605>>, <<42624, 42651>>, <<42786, 42863>>, <<42865, 42887>>,
     <<42891, 42894>>, <<42896, 42954>>, <<42960, 42961>>, <<42963, 42963>>,
     <<42965, 42969>>, <<42997, 42998>>, <<43002, 43002>>, <<43824, 43866>>,
     <<43872, 43880>>, <<43888, 43967>>, <<64256, 64262>>, <<64275, 64279>>,
     <<65313, 65338>>, <<65345, 65370>>, <<66560, 66639>>, <<66736, 66771>>,
     <<66776, 66811>>, <<66928, 66938>>, <<66940, 66954>>, <<66956, 66962>>,
     <<66964, 66965>>, <<66967, 66977>>, <<66979, 66993>>, <<66995, 67001>>,
     <<67003, 67004>>, <<68736, 68786>>, <<68800, 68850>>, <<71840, 71903>>,
     <<93760, 93823>>, <<119808, 119892>>, <<119894, 119964>>,
     <<119966, 119967>>, <<119970, 119970>>, <<119973, 119974>>,
     <<119977, 119980>>, <<119982, 119993>>, <<119995, 119995>>,
     <<119997, 120003>>, <<120005, 120069>>, <<120071, 120074>>,
     <<120077, 120084>>, <<120086, 120092>>, <<120094, 120121>>,
     <<120123, 120126>>, <<120128, 120132>>, <<120134, 120134>>,
     <<120138, 120144>>, <<120146, 120485>>, <<120488, 120512>>,
     <<120514, 120538>>, <<120540, 120570>>, <<120572, 120596>>,
     <<120598, 120628>>, <<120630, 120654>>, <<120656, 120686>>,
     <<120688, 120712>>, <<120714, 120744>>, <<120746, 120770>>,
     <<120772, 120779>>, <<122624, 122633>>, <<122635, 122654>>,
     <<125184, 125251>>, <<127280, 127305>>, <<127312, 127337>>,
     <<127344, 127369>>}

InRun(c, r) == r[1] <= c /\ c <= r[2] /\ (c - r[1]) % r[3] = 0

IsCaseIgnorable(c) == \E r \in CaseIgnorableRanges : r[1] <= c /\ c <= r[2]

IsCased(c) == \E r \in CasedRanges : r[1] <= c /\ c <= r[2]

\* the lower-case code points of one code point, whatever surrounds it;
\* U+0130 (capital I with dot above) is the one code point that gives two
LowerChar(c) ==
    IF c = 304 THEN <<105, 775>>
    ELSE IF \E r \in LowerRuns : InRun(c, r)
         THEN <<c + (CHOOSE r \in LowerRuns : InRun(c, r))[4]>>
         ELSE <<c>>

\* s[i] is a capital sigma (U+03A3) at the end of a word: the nearest code
\* point before it that is not case-ignorable is cased, and the nearest one
\* after it that is not case-ignorable, if there is one, is not cased
FinalSigma(s, i) ==
    LET before == {j \in 1..(i - 1) : ~IsCaseIgnorable(s[j])}
        after == {j \in (i + 1)..Len(s) : ~IsCaseIgnorable(s[j])}
    IN /\ before # {}
       /\ IsCased(s[CHOOSE j \in before : \A k \in before : k <= j])
       /\ \/ after = {}
          \/ ~IsCased(s[CHOOSE j \in after : \A k \in after : j <= k])

\* the lower-case code points of s[i]: a capital sigma becomes the final
\* small sigma (U+03C2) at the end of a word and the small sigma (U+03C3)
\* elsewhere
LowerAt(s, i) ==
    IF s[i] = 931 THEN <<IF FinalSigma(s, i) THEN 962 ELSE 963>>
    ELSE LowerChar(s[i])

RECURSIVE LowerFrom(_, _)
LowerFrom(s, i) == IF i > Len(s) THEN <<>> ELSE LowerAt(s, i) \o LowerFrom(s, i + 1)

\* str.lower()
Lower(s) == LowerFrom(s, 1)

\* the comparison with "exit", "end" and "quit"
IsExit(user_input) ==
    Lower(user_input) \in {<<101, 120, 105, 116>>, <<101, 110, 100>>,
                           <<113, 117, 105, 116>>}

\* variant: the user's message replaces the history instead of extending it
AppendUserInput_Replace(items, user_input) == <<UserItem(user_input)>>

\* variant: the user's message is put in front of the history
AppendUserInput_Front(items, user_input) == <<UserItem(user_input)>> \o items

AppendUserInput(items, user_input) == Append(items, UserItem(user_input))

RenderItem(item) ==
    CASE item.kind = "message" ->
            [fmt |-> "message", agent |-> item.agent, text |-> item.name]
      [] item.kind = "handoff" ->
            [fmt |-> "handoff", source |-> item.agent, target |-> item.name]
      [] item.kind = "tool_call" ->
            [fmt |-> "tool_call", agent |-> item.agent]
      [] item.kind = "tool_output" ->
            [fmt |-> "tool_output", agent |-> item.agent,
             status |-> item.status, output |-> item.value]
      [] OTHER ->
            [fmt |-> "skip", agent |-> item.agent, class |-> item.kind]

\* variant: items of a class the loop does not know print nothing
Render_KnownOnly(new_items) ==
    LET known == SelectSeq(new_items,
                           LAMBDA it : it.kind \in {"message", "handoff", "tool_call",
                                                     "tool_output"})
    IN [i \in DOMAIN known |-> RenderItem(known[i])]

Render(new_items) == [i \in DOMAIN new_items |-> RenderItem(new_items[i])]

\* variant: the engine works on a new, empty context
CurrentWorld_FreshContext == World(NoAccount, beneficiaries, investments, next_id)

CurrentWorld == World(context, beneficiaries, investments, next_id)

\* the engine run as it stands: [agent, world, new_items]
EngineState == [agent |-> run_agent, world |-> CurrentWorld, new_items |-> run_items]

\* variant: a failed action ends the processing of the list
RestAfter_StopAtFailure(st, todo) ==
    IF st.new_items[Len(st.new_items)].status # "ok" THEN <<>> ELSE Tail(todo)

\* the actions left once the head of todo has been applied and left st
RestAfter(st, todo) == Tail(todo)

\* the prompt is answered with a message: it is appended to the history and
\* `run` suspends in `await Runner.run(current_agent, input_items, context)`
ReadInputWith(maxHistory) ==
    /\ pc = "input"
    /\ Len(input_items) < maxHistory
    /\ \E user_input \in UserInputs :
          /\ ~IsExit(user_input)
          /\ input_items' = AppendUserInput(input_items, user_input)
    /\ pc' = "await"
    /\ engine_pc' = "decide"
    /\ run_agent' = current_agent
    /\ run_items' = <<>>
    /\ last_actions' = <<>>
    /\ pending' = <<>>
    /\ rendered' = <<>>
    /\ turn_world' = World(context, beneficiaries, investments, next_id)
    /\ UNCHANGED <<current_agent, context, beneficiaries, investments, next_id>>

\* the engine obtains the oracle's action list
DecideWith(alphabet, maxActions, maxHistory) ==
    /\ pc = "await"
    /\ engine_pc = "decide"
    /\ \E acts \in ActionLists(alphabet, maxActions, maxHistory - Len(input_items)) :
          /\ last_actions' = acts
          /\ pending' = acts
    /\ engine_pc' = "apply"
    /\ UNCHANGED <<pc, current_agent, input_items, context, beneficiaries, investments,
                   next_id, rendered, run_agent, run_items, turn_world>>

\* the engine applies the next action while `run` is suspended
Apply ==
    /\ pc = "await"
    /\ engine_pc = "apply"
    /\ pending # <<>>
    /\ LET st == ApplyAction(EngineState, Head(pending))
       IN /\ run_agent' = st.agent
          /\ run_items' = st.new_items
          /\ context' = st.world.account_id
          /\ beneficiaries' = st.world.beneficiaries
          /\ investments' = st.world.investments
          /\ next_id' = st.world.next_id
          /\ pending' = RestAfter(st, pending)
    /\ UNCHANGED <<pc, current_agent, input_items, rendered, engine_pc, last_actions,
                   turn_world>>

\* Runner.run returns: the items are printed, the history and the owner
\* are taken from the result, and the loop is back at the prompt
Resume ==
    /\ pc = "await"
    /\ engine_pc = "apply"
    /\ pending = <<>>
    /\ LET result == EngineState
       IN /\ rendered' = Render(result.new_items)
          /\ input_items' = to_input_list(input_items, result)
          /\ current_agent' = result.agent
    /\ pc' = "input"
    /\ engine_pc' = "idle"
    /\ run_items' = <<>>
    /\ UNCHANGED <<context, beneficiaries, investments, next_id, last_actions, pending,
                   run_agent, turn_world>>

\* Runner.run raises (the oracle cannot be reached, the run is cancelled):
\* the exception leaves `run`; printing and the two assignments after the
\* loop body are never reached, what the tools did so far stays
Raise ==
    /\ pc = "await"
    /\ pc' = "failed"
    /\ engine_pc' = "idle"
    /\ run_items' = <<>>
    /\ UNCHANGED <<current_agent, input_items, context, beneficiaries, investments,
                   next_id, rendered, last_actions, pending, run_agent, turn_world>>

\* the prompt is answered with exit, end or quit in any case: the loop ends
Exit ==
    /\ pc = "input"
    /\ \E user_input \in UserInputs : IsExit(user_input)
    /\ pc' = "done"
    /\ UNCHANGED <<current_agent, input_items, context, beneficiaries, investments,
                   next_id, rendered, engine_pc, last_actions, pending, run_agent,
                   run_items, turn_world>>

ReadInput == ReadInputWith(MaxHistory)

Decide == DecideWith(OracleActions, MaxActions, MaxHistory)

\* variant: the conversation starts with the beneficiary agent
Init_Beneficiary ==
    /\ pc = "input"
    /\ current_agent = beneficiary_agent
    /\ input_items = <<>>
    /\ context = NoAccount
    /\ beneficiaries = EmptyStore
    /\ investments = EmptyStore
    /\ next_id = 1
    /\ last_actions = <<>>
    /\ rendered = <<>>
    /\ engine_pc = "idle"
    /\ pending = <<>>
    /\ run_agent = beneficiary_agent
    /\ run_items = <<>>
    /\ turn_world = World(NoAccount, EmptyStore, EmptyStore, 1)

Init ==
    /\ pc = "input"
    /\ current_agent = supervisor_agent
    /\ input_items = <<>>
    /\ context = NoAccount
    /\ beneficiaries = EmptyStore
    /\ investments = EmptyStore
    /\ next_id = 1
    /\ last_actions = <<>>
    /\ rendered = <<>>
    /\ engine_pc = "idle"
    /\ pending = <<>>
    /\ run_agent = supervisor_agent
    /\ run_items = <<>>
    /\ turn_world = World(NoAccount, EmptyStore, EmptyStore, 1)

Next == ReadInput \/ Decide \/ Apply \/ Resume \/ Raise \/ Exit

Spec == Init /\ [][Next]_vars

TypeOK ==
    /\ pc \in {"input", "await", "failed", "done"}
    /\ engine_pc \in {"idle", "decide", "apply"}
    /\ pc = "await" <=> engine_pc # "idle"
    /\ current_agent \in Agents
    /\ run_agent \in Agents
    /\ context \in Accounts \cup {NoAccount}
    /\ next_id \in Nat
    /\ Len(input_items) + Len(run_items) <= MaxHistory

(***************************************************************************)
(* Second specification: the same driver and engine, with the oracle's     *)
(* actions drawn from the beneficiary round-trip alphabet and a longer     *)
(* history.                                                                *)
(***************************************************************************)
RoundTripArgs ==
    [account_id |-> "42", first_name |-> "A", last_name |-> "B", relationship |-> "spouse"]

OracleActionsRT ==
    {Handoff(beneficiary_agent),
     InvokeTool("add_beneficiaries", RoundTripArgs),
     InvokeTool("list_beneficiaries", [account_id |-> "42"])}
    \cup {InvokeTool("delete_beneficiaries", [account_id |-> "42", beneficiary_id |-> i]) :
            i \in RecordIds}

ReadInputRT == ReadInputWith(MaxHistoryRT)

DecideRT == DecideWith(OracleActionsRT, MaxActionsRT, MaxHistoryRT)

NextRT == ReadInputRT \/ DecideRT \/ Apply \/ Resume \/ Raise \/ Exit

SpecRT == Init /\ [][NextRT]_vars

(***************************************************************************)
(* Vocabulary of the properties.                                           *)
(***************************************************************************)
\* the actions of the current or last engine run that have been applied
Applied == SubSeq(last_actions, 1, Len(last_actions) - Len(pending))

\* applying the actions one by one is the engine run over the applied prefix
EngineRunsPrefix ==
    engine_pc = "apply" =>
        EngineState = RunnerRun(current_agent, turn_world, Applied)

\* the handoff relation as the specification states it
HubAndSpoke ==
    {<<"supervisor", "beneficiary_agent">>, <<"supervisor", "investment_agent">>,
     <<"beneficiary_agent", "supervisor">>, <<"investment_agent", "supervisor">>}

\* the tool sets as the specification states them
DeclaredTools ==
    {<<"beneficiary_agent", "list_beneficiaries">>,
     <<"beneficiary_agent", "add_beneficiaries">>,
     <<"beneficiary_agent", "delete_beneficiaries">>,
     <<"investment_agent", "list_investments">>,
     <<"investment_agent", "open_investment">>,
     <<"investment_agent", "close_investment">>}

IsPrefix(s, t) == Len(s) <= Len(t) /\ SubSeq(t, 1, Len(s)) = s

Last(s) == s[Len(s)]

\* owner after folding the validated handoffs of acts over owner
RECURSIVE FoldOwner(_, _)
FoldOwner(owner, acts) ==
    IF acts = <<>> THEN owner
    ELSE FoldOwner(IF Head(acts).type = "Handoff" /\ <<owner, Head(acts).name>> \in HubAndSpoke
                   THEN Head(acts).name ELSE owner,
                   Tail(acts))

\* owner against which action i of acts is dispatched, in a turn started by owner
OwnerBefore(owner, acts, i) == FoldOwner(owner, SubSeq(acts, 1, i - 1))

\* number of items the first i actions of acts append
RECURSIVE ItemsOf(_, _)
ItemsOf(acts, i) == IF i = 0 THEN 0 ELSE ItemsOf(acts, i - 1) + ItemCount(acts[i])

\* the step that starts a turn: the user's message is read and the engine called
TurnStarted == pc = "input" /\ pc' = "await"

\* a step in which the engine applies an action of the given type
Applies(type) ==
    /\ pc = "await"
    /\ pc' = "await"
    /\ engine_pc = "apply"
    /\ Len(pending) > 0
    /\ Head(pending).type = type

\* the step that completes a turn: the engine returned and the loop body ran to its end
TurnCompleted == pc = "await" /\ pc' = "input"

\* the step in which an exception of the engine leaves the loop
TurnAborted == pc = "await" /\ pc' = "failed"

\* the items the engine returned in the turn just completed
NewItems == SubSeq(input_items', Len(input_items) + 1, Len(input_items'))

IsInvalidHandoff(owner, acts, i) ==
    /\ acts[i].type = "Handoff"
    /\ <<OwnerBefore(owner, acts, i), acts[i].name>> \notin HubAndSpoke

IsUnknownTool(owner, acts, i) ==
    /\ acts[i].type = "InvokeTool"
    /\ <<OwnerBefore(owner, acts, i), acts[i].name>> \notin DeclaredTools

\* owner after action i of the completed iteration, read from what follows it
OwnerAfter(acts, new, i) ==
    IF i = Len(acts) THEN current_agent' ELSE new[ItemsOf(acts, i) + 1].agent

(***************************************************************************)
(* C1: after every completed turn the owning agent equals the fold of the  *)
(* turn's validated Handoff actions over the owner before the turn (the    *)
(* supervisor initially): a Handoff to a target in the owner's handoffs    *)
(* set moves ownership, every other action leaves it unchanged.            *)
(***************************************************************************)
Thm_C1 ==
    [][TurnCompleted => current_agent' = FoldOwner(current_agent, last_actions')]_vars

Wit_C1 ==
    /\ pc = "input"
    /\ current_agent = investment_agent
    /\ \E i \in DOMAIN last_actions : last_actions[i] = Handoff(investment_agent)
    /\ \E j \in DOMAIN input_items : input_items[j].kind = "failure"
    /\ \E j \in DOMAIN input_items :
          input_items[j].kind = "handoff" /\ input_items[j].name = supervisor_agent

(***************************************************************************)
(* C2: a Handoff whose target is not in the current owner's handoffs set   *)
(* (a self-handoff included) is rejected: an InvalidHandoff failure naming *)
(* the target is recorded in history and the owner stays the same.         *)
(***************************************************************************)
Thm_C2 ==
    [][TurnCompleted =>
        \A i \in DOMAIN last_actions' :
            IsInvalidHandoff(current_agent, last_actions', i) =>
                LET item == NewItems[ItemsOf(last_actions', i)]
                    owner == OwnerBefore(current_agent, last_actions', i)
                IN /\ item.kind = "failure"
                   /\ item.status = "InvalidHandoff"
                   /\ item.agent = owner
                   /\ item.name = last_actions'[i].name
                   /\ OwnerAfter(last_actions', NewItems, i) = owner]_vars

Wit_C2 ==
    /\ pc = "input"
    /\ current_agent = beneficiary_agent
    /\ Len(input_items) > 0
    /\ Last(input_items).kind = "failure"
    /\ Last(input_items).status = "InvalidHandoff"
    /\ Last(input_items).agent = beneficiary_agent
    /\ Last(input_items).name = beneficiary_agent

(***************************************************************************)
(* C3: history is append-only: in every step the history before the step   *)
(* is a prefix of the history after it.                                    *)
(***************************************************************************)
Thm_C3 == [][IsPrefix(input_items, input_items')]_vars

Wit_C3 ==
    /\ pc = "input"
    /\ Len(input_items) >= 5
    /\ Cardinality({i \in DOMAIN input_items : input_items[i].kind = "user"}) >= 2
    /\ \E i \in DOMAIN input_items : input_items[i].kind = "tool_output"

\* acts without the InvokeTool actions naming a tool the owner at that point lacks
KnownOnly(owner, acts) ==
    LET keep == {i \in DOMAIN acts : ~IsUnknownTool(owner, acts, i)}
        RECURSIVE Pick(_)
        Pick(i) == IF i > Len(acts) THEN <<>>
                   ELSE IF i \in keep THEN <<acts[i]>> \o Pick(i + 1)
                   ELSE Pick(i + 1)
    IN Pick(1)

(***************************************************************************)
(* C4: an InvokeTool naming a tool outside the current owner's tool set    *)
(* yields an UnknownTool failure result and touches neither the context's  *)
(* account id nor a manager store, whatever account id it carries: the     *)
(* turn leaves the account id and the stores as the same turn without      *)
(* those invocations would.                                                *)
(***************************************************************************)
Thm_C4 ==
    [][(TurnCompleted \/ TurnAborted) =>
        LET acts == Applied
            r == RunnerRun(current_agent, turn_world, KnownOnly(current_agent, acts))
        IN /\ context' = r.world.account_id
           /\ beneficiaries' = r.world.beneficiaries
           /\ investments' = r.world.investments
           /\ TurnCompleted =>
                \A i \in DOMAIN acts :
                    IsUnknownTool(current_agent, acts, i) =>
                        LET out == NewItems[ItemsOf(acts, i)]
                        IN /\ out.kind = "tool_output"
                           /\ out.name = acts[i].name
                           /\ out.status = "UnknownTool"]_vars

Wit_C4 ==
    /\ pc = "input"
    /\ Len(input_items) >= 4
    /\ Last(input_items).kind = "tool_output"
    /\ Last(input_items).status = "UnknownTool"
    /\ input_items[Len(input_items) - 1].args.account_id = "42"
    /\ context = "7"
    /\ beneficiaries["7"] # <<>>
    /\ beneficiaries["42"] = <<>>
    /\ investments["42"] = <<>>

(***************************************************************************)
(* C5: after a completed turn the context's account id is the account id   *)
(* argument of the turn's last successful tool call, provided no tool call *)
(* was dispatched after it, whichever agent made the call; a turn without  *)
(* a dispatched tool call (messages, handoffs, unknown tools) leaves the   *)
(* account id as it was.                                                   *)
(***************************************************************************)
Thm_C5 ==
    [][TurnCompleted =>
        LET new == NewItems
            Dispatched(k) == new[k].kind = "tool_output" /\ new[k].status # "UnknownTool"
        IN /\ (\A k \in DOMAIN new : ~Dispatched(k)) => context' = turn_world.account_id
           /\ \A j \in DOMAIN new :
                (/\ new[j].kind = "tool_output"
                 /\ new[j].status = "ok"
                 /\ \A k \in DOMAIN new : k > j => ~Dispatched(k))
                => context' = new[j - 1].args.account_id]_vars

Wit_C5 ==
    /\ pc = "input"
    /\ context = "42"
    /\ current_agent = supervisor_agent
    /\ Len(input_items) >= 2
    /\ Last(input_items).kind = "handoff"
    /\ input_items[Len(input_items) - 1].kind = "user"
    /\ \E j \in DOMAIN input_items :
          /\ input_items[j].kind = "tool_output"
          /\ input_items[j].status = "ok"
          /\ input_items[j].agent = investment_agent
          /\ input_items[j - 1].args.account_id = "42"

IsCall(item, tool, acct) ==
    item.kind = "tool_call" /\ item.name = tool /\ item.args.account_id = acct

\* history shows no successful add_beneficiaries for acct before position j
NoEarlierAdd(j, acct) ==
    \A k \in 1..(j - 1) :
        ~(IsCall(input_items[k], "add_beneficiaries", acct) /\ input_items[k + 1].status = "ok")

\* items j..j+3 are add_beneficiaries(acct, ...) and list_beneficiaries(acct)
AddThenList(j, acct) ==
    /\ j + 3 <= Len(input_items)
    /\ IsCall(input_items[j], "add_beneficiaries", acct)
    /\ input_items[j + 1].status = "ok"
    /\ IsCall(input_items[j + 2], "list_beneficiaries", acct)

\* items j+4..j+7 are delete_beneficiaries(acct, listed id) and list_beneficiaries(acct)
DeleteThenList(j, acct) ==
    /\ j + 7 <= Len(input_items)
    /\ Len(input_items[j + 3].value) = 1
    /\ IsCall(input_items[j + 4], "delete_beneficiaries", acct)
    /\ input_items[j + 4].args.beneficiary_id = input_items[j + 3].value[1].id
    /\ IsCall(input_items[j + 6], "list_beneficiaries", acct)

(***************************************************************************)
(* C6: beneficiary round trip.  On an account without beneficiaries,       *)
(* add_beneficiaries(acct, first, last, relationship) followed by          *)
(* list_beneficiaries(acct) lists exactly one record carrying the three    *)
(* fields and a generated id; delete_beneficiaries(acct, that id) followed *)
(* by list_beneficiaries(acct) then lists nothing.                         *)
(***************************************************************************)
Thm_C6 ==
    \A acct \in Accounts :
    \A j \in DOMAIN input_items :
        (AddThenList(j, acct) /\ NoEarlierAdd(j, acct)) =>
            LET added == input_items[j].args
                listed == input_items[j + 3]
            IN /\ listed.status = "ok"
               /\ Len(listed.value) = 1
               /\ DOMAIN listed.value[1] = {"id", "first_name", "last_name", "relationship"}
               /\ listed.value[1].first_name = added.first_name
               /\ listed.value[1].last_name = added.last_name
               /\ listed.value[1].relationship = added.relationship
               /\ listed.value[1].id \in Nat
               /\ DeleteThenList(j, acct) =>
                    /\ input_items[j + 5].status = "ok"
                    /\ input_items[j + 7].status = "ok"
                    /\ input_items[j + 7].value = <<>>

Wit_C6 ==
    /\ pc = "input"
    /\ \E j \in DOMAIN input_items :
          /\ AddThenList(j, "42")
          /\ NoEarlierAdd(j, "42")
          /\ DeleteThenList(j, "42")
          /\ input_items[j + 7].value = <<>>
          /\ beneficiaries["42"] = <<>>

GrowthArgs == [account_id |-> "42", name |-> "Growth", balance |-> "1000"]

HandoffThenOpen == <<Handoff("investment_agent"), InvokeTool("open_investment", GrowthArgs)>>

(***************************************************************************)
(* C7: actions after a valid Handoff are dispatched against the new owner. *)
(* A turn started by the supervisor on an account without investments with *)
(* the list [Handoff(investment_agent), InvokeTool(open_investment,        *)
(* {"42", "Growth", "1000"})] ends with owner investment_agent, account id *)
(* "42", a successful tool result, and list_investments("42") returning    *)
(* one record named "Growth" with balance "1000".                          *)
(***************************************************************************)
Thm_C7 ==
    [][(/\ TurnCompleted
        /\ current_agent = "supervisor"
        /\ turn_world.investments["42"] = <<>>
        /\ last_actions' = HandoffThenOpen)
       => LET after == World(context', beneficiaries', investments', next_id')
              listed == list_investments(after, [account_id |-> "42"]).result
          IN /\ current_agent' = "investment_agent"
             /\ context' = "42"
             /\ Last(input_items').kind = "tool_output"
             /\ Last(input_items').agent = "investment_agent"
             /\ Last(input_items').status = "ok"
             /\ listed.status = "ok"
             /\ Len(listed.value) = 1
             /\ listed.value[1].name = "Growth"
             /\ listed.value[1].balance = "1000"]_vars

Wit_C7 ==
    /\ pc = "input"
    /\ last_actions = HandoffThenOpen
    /\ Len(input_items) = 4
    /\ current_agent = investment_agent
    /\ context = "42"
    /\ Len(investments["42"]) = 1

\* the first item an action appends is the record of that action
Records(item, a) ==
    CASE a.type = "EmitMessage" -> item.kind = "message" /\ item.name = a.name
      [] a.type = "InvokeTool" ->
            item.kind = "tool_call" /\ item.name = a.name /\ item.args = a.args
      [] a.type = "Handoff" -> item.kind \in {"handoff", "failure"} /\ item.name = a.name

(***************************************************************************)
(* C8: UnknownTool, InvalidHandoff and ToolExecutionError are non-fatal.   *)
(* In a completed turn every action of the oracle's list, those after a    *)
(* failed one included, has its items in history in list order; a failed   *)
(* action's last item carries the failure and the owner after it is the    *)
(* owner before it.                                                        *)
(***************************************************************************)
Thm_C8 ==
    [][TurnCompleted =>
        LET acts == last_actions'
            new == NewItems
        IN /\ Len(new) = ItemsOf(acts, Len(acts))
           /\ \A i \in DOMAIN acts :
                LET first == new[ItemsOf(acts, i - 1) + 1]
                    last == new[ItemsOf(acts, i)]
                IN /\ Records(first, acts[i])
                   /\ first.agent = OwnerBefore(current_agent, acts, i)
                   /\ last.status \in {"ok", "UnknownTool", "InvalidHandoff",
                                       "ToolExecutionError"}
                   /\ last.status # "ok" => OwnerAfter(acts, new, i) = first.agent
                   /\ (IsInvalidHandoff(current_agent, acts, i)
                       \/ IsUnknownTool(current_agent, acts, i)) => last.status # "ok"]_vars

Wit_C8 ==
    /\ pc = "input"
    /\ Len(last_actions) = 3
    /\ Len(input_items) = 6
    /\ input_items[2].kind = "handoff"
    /\ input_items[4].status = "ToolExecutionError"
    /\ input_items[6].status = "UnknownTool"
    /\ current_agent = beneficiary_agent

\* number of successful calls of tool for acct that history records
RecordedCalls(tool, acct) ==
    Cardinality({j \in DOMAIN input_items :
                    /\ IsCall(input_items[j], tool, acct)
                    /\ input_items[j + 1].status = "ok"})

\* every record in a store and the context's account id trace back to a
\* tool call recorded in history
EffectsRecorded ==
    /\ \A acct \in Accounts :
          /\ Len(beneficiaries[acct]) <= RecordedCalls("add_beneficiaries", acct)
          /\ Len(investments[acct]) <= RecordedCalls("open_investment", acct)
    /\ context # NoAccount =>
          \E j \in DOMAIN input_items :
              input_items[j].kind = "tool_call" /\ input_items[j].args.account_id = context

(***************************************************************************)
(* C9: a fatal failure of the turn is surfaced to the driver and the       *)
(* effects of the actions applied before the failure point are preserved   *)
(* in history: after the failure every stored record and the context's     *)
(* account id trace back to a tool call that history records.              *)
(***************************************************************************)
CE_C9 == pc = "failed" => EffectsRecorded

\* in a turn started by owner, the printed kinds of action i of acts
ExpectedLines(owner, acts, i) ==
    CASE acts[i].type = "EmitMessage" -> <<"message">>
      [] acts[i].type = "InvokeTool" -> <<"tool_call", "tool_output">>
      [] acts[i].type = "Handoff" ->
            IF IsInvalidHandoff(owner, acts, i) THEN <<"skip">> ELSE <<"handoff">>

(***************************************************************************)
(* C10: the lines the driver prints for a completed turn are one group per *)
(* action of the oracle's list, in list order: a message line for an       *)
(* EmitMessage, a call line and an output line for an InvokeTool, one line *)
(* for a Handoff (applied or rejected); no action is printed twice or      *)
(* dropped.                                                                *)
(***************************************************************************)
Thm_C10 ==
    [][TurnCompleted =>
        LET acts == last_actions'
            out == rendered'
        IN /\ Len(out) = ItemsOf(acts, Len(acts))
           /\ \A i \in DOMAIN acts :
                LET from == ItemsOf(acts, i - 1)
                    want == ExpectedLines(current_agent, acts, i)
                    owner == OwnerBefore(current_agent, acts, i)
                IN /\ \A k \in DOMAIN want : out[from + k].fmt = want[k]
                   /\ acts[i].type = "EmitMessage" =>
                        out[from + 1].agent = owner /\ out[from + 1].text = acts[i].name
                   /\ acts[i].type = "InvokeTool" =>
                        out[from + 1].agent = owner /\ out[from + 2].agent = owner
                   /\ (acts[i].type = "Handoff" /\ want = <<"handoff">>) =>
                        out[from + 1].source = owner /\ out[from + 1].target = acts[i].name
                   /\ (acts[i].type = "Handoff" /\ want = <<"skip">>) =>
                        out[from + 1].agent = owner]_vars

Wit_C10 ==
    /\ pc = "input"
    /\ Len(last_actions) = 3
    /\ Len(rendered) = 4
    /\ rendered[1].fmt = "skip"
    /\ rendered[2].fmt = "tool_call"
    /\ rendered[3].fmt = "tool_output"
    /\ rendered[4].fmt = "message"

\* the world after the turn, seen from a step
WorldAfterTurn == World(context', beneficiaries', investments', next_id')

\* the same turn run again over the stores the first run left behind
Replay ==
    RunnerRun(current_agent, [WorldAfterTurn EXCEPT !.account_id = turn_world.account_id],
              last_actions')

\* an item with the generated ids of the records it lists erased
StripIds(item) ==
    [item EXCEPT !.value = [k \in DOMAIN item.value |-> [item.value[k] EXCEPT !.id = 0]]]

\* an item with the result of a dispatched tool call erased
StripResult(item) ==
    IF item.kind = "tool_output" /\ item.status # "UnknownTool"
    THEN [item EXCEPT !.status = "result", !.value = <<>>]
    ELSE item

(***************************************************************************)
(* C11 as stated: a second run of the engine from the same history, owner  *)
(* and context with the same oracle responses produces the same new        *)
(* history, owner and context, up to the generated record ids.             *)
(***************************************************************************)
CE_C11 ==
    [][TurnCompleted =>
        /\ Replay.agent = current_agent'
        /\ Replay.world.account_id = context'
        /\ Len(Replay.new_items) = Len(NewItems)
        /\ \A k \in DOMAIN NewItems :
              StripIds(Replay.new_items[k]) = StripIds(NewItems[k])]_vars

(***************************************************************************)
(* C11 amended: the second run produces the same owner, the same context   *)
(* and the same new history except for the results (status and output) of  *)
(* the dispatched tool calls, which depend on the manager stores.          *)
(***************************************************************************)
Thm_C11 ==
    [][TurnCompleted =>
        /\ Replay.agent = current_agent'
        /\ Replay.world.account_id = context'
        /\ Len(Replay.new_items) = Len(NewItems)
        /\ \A k \in DOMAIN NewItems :
              StripResult(Replay.new_items[k]) = StripResult(NewItems[k])]_vars

Wit_C11 ==
    /\ pc = "input"
    /\ current_agent = beneficiary_agent
    /\ Len(input_items) = 6
    /\ Len(last_actions) = 3
    /\ IsCall(input_items[5], "delete_beneficiaries", "42")
    /\ input_items[6].status = "ok"
    /\ context = "42"

\* acts without the InvokeTool actions dispatched while another agent than a owns
OnlyUnder(a, owner, acts) ==
    LET keep == {i \in DOMAIN acts :
                    acts[i].type = "InvokeTool" => OwnerBefore(owner, acts, i) = a}
        RECURSIVE Pick(_)
        Pick(i) == IF i > Len(acts) THEN <<>>
                   ELSE IF i \in keep THEN <<acts[i]>> \o Pick(i + 1)
                   ELSE Pick(i + 1)
    IN Pick(1)

(***************************************************************************)
(* C12: tools are resolved in the current owner's tool set only.  In every *)
(* turn the beneficiaries store ends as if only the tool calls made while  *)
(* beneficiary_agent owned the conversation had been made, the investment  *)
(* store as if only those made while investment_agent owned it, and a turn *)
(* owned by the supervisor throughout changes neither store.               *)
(***************************************************************************)
Thm_C12 ==
    [][(TurnCompleted \/ TurnAborted) =>
        LET acts == Applied
            asBene == RunnerRun(current_agent, turn_world,
                                OnlyUnder("beneficiary_agent", current_agent, acts))
            asInv == RunnerRun(current_agent, turn_world,
                               OnlyUnder("investment_agent", current_agent, acts))
        IN /\ beneficiaries' = asBene.world.beneficiaries
           /\ investments' = asInv.world.investments
           /\ (\A i \in 1..(Len(acts) + 1) :
                    OwnerBefore(current_agent, acts, i) = "supervisor")
              => /\ beneficiaries' = turn_world.beneficiaries
                 /\ investments' = turn_world.investments]_vars

Wit_C12 ==
    /\ pc = "input"
    /\ Len(input_items) = 6
    /\ current_agent = investment_agent
    /\ IsCall(input_items[2], "add_beneficiaries", "7")
    /\ input_items[2].agent = supervisor_agent
    /\ input_items[3].status = "UnknownTool"
    /\ investments["7"] # <<>>
    /\ beneficiaries["7"] = <<>>

IsHandoffTo(j, target) ==
    input_items[j].kind = "handoff" /\ input_items[j].name = target

\* owner of the conversation when item j was written, as history records it
RECURSIVE OwnerAt(_)
OwnerAt(j) ==
    IF j <= 1 THEN "supervisor"
    ELSE IF input_items[j - 1].kind = "handoff" THEN input_items[j - 1].name
    ELSE OwnerAt(j - 1)

(***************************************************************************)
(* C13: the handoff graph is the hub-and-spoke relation between the        *)
(* supervisor and the two specialists.  Every handoff that history records *)
(* follows one of its four edges, every item is written by the agent the   *)
(* preceding handoffs made the owner, and between a handoff to one         *)
(* specialist and a later handoff to the other there is a handoff to the   *)
(* supervisor.                                                             *)
(***************************************************************************)
Thm_C13 ==
    /\ \A a \in Agents : Handoffs(a) = {b \in Agents : <<a, b>> \in HubAndSpoke}
    /\ current_agent = OwnerAt(Len(input_items) + 1)
    /\ \A j \in DOMAIN input_items :
          /\ input_items[j].kind # "user" => input_items[j].agent = OwnerAt(j)
          /\ input_items[j].kind = "handoff" =>
                <<input_items[j].agent, input_items[j].name>> \in HubAndSpoke
          /\ \A k \in DOMAIN input_items :
                (/\ j < k
                 /\ \/ IsHandoffTo(j, "beneficiary_agent") /\ IsHandoffTo(k, "investment_agent")
                    \/ IsHandoffTo(j, "investment_agent") /\ IsHandoffTo(k, "beneficiary_agent"))
                => \E m \in (j + 1)..(k - 1) : IsHandoffTo(m, "supervisor")

Wit_C13 ==
    /\ pc = "input"
    /\ current_agent = investment_agent
    /\ \E j, m, k \in DOMAIN input_items :
          /\ j < m /\ m < k
          /\ IsHandoffTo(j, beneficiary_agent)
          /\ IsHandoffTo(m, supervisor_agent)
          /\ IsHandoffTo(k, investment_agent)
    /\ \E j \in DOMAIN input_items :
          /\ input_items[j].status = "InvalidHandoff"
          /\ input_items[j].agent = beneficiary_agent
          /\ input_items[j].name = investment_agent

(***************************************************************************)
(* C14: the conversation is always owned by one of the three declared      *)
(* agents, and a conversation without history is owned by the supervisor   *)
(* and has no account id.                                                  *)
(***************************************************************************)
Thm_C14 ==
    /\ current_agent \in {"supervisor", "beneficiary_agent", "investment_agent"}
    /\ input_items = <<>> =>
          /\ current_agent = "supervisor"
          /\ context = NoAccount
          /\ \A acct \in Accounts : beneficiaries[acct] = <<>> /\ investments[acct] = <<>>

Wit_C14 ==
    /\ pc = "done"
    /\ input_items = <<>>
    /\ current_agent = supervisor_agent
    /\ context = NoAccount

\* acts without the EmitMessage actions
WithoutMessages(acts) == SelectSeq(acts, LAMBDA a : a.type # "EmitMessage")

(***************************************************************************)
(* C15: an EmitMessage appends one item written by the owning agent and    *)
(* changes nothing else: the turn ends with the owner, the account id and  *)
(* the stores of the same turn without its messages, and has exactly one   *)
(* more item per message.                                                  *)
(***************************************************************************)
Thm_C15 ==
    [][/\ Applies("EmitMessage") =>
            /\ UNCHANGED <<context, beneficiaries, investments, next_id, run_agent>>
            /\ run_items' = Append(run_items, Last(run_items'))
            /\ Last(run_items').kind = "message"
            /\ Last(run_items').agent = run_agent
       /\ TurnCompleted =>
        LET acts == last_actions'
            quiet == RunnerRun(current_agent, turn_world, WithoutMessages(acts))
        IN /\ current_agent' = quiet.agent
           /\ WorldAfterTurn = quiet.world
           /\ Len(NewItems) = Len(quiet.new_items) + Len(acts) - Len(WithoutMessages(acts))
           /\ \A i \in DOMAIN acts :
                acts[i].type = "EmitMessage" =>
                    LET item == NewItems[ItemsOf(acts, i)]
                    IN /\ item.kind = "message"
                       /\ item.agent = OwnerBefore(current_agent, acts, i)
                       /\ item.name = acts[i].name
                       /\ ItemsOf(acts, i) = ItemsOf(acts, i - 1) + 1]_vars

Wit_C15 ==
    /\ pc = "input"
    /\ Len(input_items) = 6
    /\ Last(input_items).kind = "message"
    /\ Last(input_items).agent = investment_agent
    /\ input_items[5].kind = "user"
    /\ last_actions = <<EmitMessage(AgentText)>>
    /\ context = "7"
    /\ investments["7"] # <<>>

\* the world against which action i of the turn is applied, and the one it leaves
WorldBefore(i) ==
    RunnerRun(current_agent, turn_world, SubSeq(last_actions, 1, i - 1)).world

WorldAt(i) ==
    RunnerRun(current_agent, turn_world, SubSeq(last_actions, 1, i)).world

IsDispatched(owner, acts, i) ==
    /\ acts[i].type = "InvokeTool"
    /\ <<OwnerBefore(owner, acts, i), acts[i].name>> \in DeclaredTools

IdsOf(recs) == {recs[k].id : k \in DOMAIN recs}

\* action i deletes or closes a record the account does not hold at that point
NamesMissingRecord(acts, i) ==
    \/ /\ acts[i].name = "delete_beneficiaries"
       /\ acts[i].args.beneficiary_id
             \notin IdsOf(WorldBefore(i).beneficiaries[acts[i].args.account_id])
    \/ /\ acts[i].name = "close_investment"
       /\ acts[i].args.investment_id
             \notin IdsOf(WorldBefore(i).investments[acts[i].args.account_id])

(***************************************************************************)
(* C16: a dispatched delete_beneficiaries or close_investment naming a     *)
(* record id the account does not hold is reported as a ToolExecutionError *)
(* result naming the tool, leaves the records of both stores unchanged and *)
(* does not end the conversation: the turn completes.  No other tool call  *)
(* is reported as a ToolExecutionError.                                    *)
(***************************************************************************)
Thm_C16 ==
    [][TurnCompleted =>
        LET acts == last_actions'
        IN \A i \in DOMAIN acts :
              LET out == NewItems[ItemsOf(acts, i)]
              IN /\ (IsDispatched(current_agent, acts, i) /\ NamesMissingRecord(acts, i)) =>
                        /\ out.kind = "tool_output"
                        /\ out.status = "ToolExecutionError"
                        /\ out.name = acts[i].name
                        /\ WorldAt(i).beneficiaries = WorldBefore(i).beneficiaries
                        /\ WorldAt(i).investments = WorldBefore(i).investments
                        /\ pc' = "input"
                 /\ out.status = "ToolExecutionError" =>
                        IsDispatched(current_agent, acts, i) /\ NamesMissingRecord(acts, i)]_vars

Wit_C16 ==
    /\ pc = "input"
    /\ Len(input_items) = 6
    /\ IsCall(input_items[5], "delete_beneficiaries", "42")
    /\ input_items[5].args.beneficiary_id = 2
    /\ input_items[6].status = "ToolExecutionError"
    /\ input_items[6].name = "delete_beneficiaries"
    /\ Len(beneficiaries["42"]) = 1

(***************************************************************************)
(* C17: turns run one after the other.  A turn extends the history it      *)
(* found by the user's message first and the engine's items after it; none *)
(* of the engine's items is a user message and the first of them is        *)
(* written by the owner the previous turn returned.  A turn the engine     *)
(* leaves by an exception has added the user's message only.               *)
(***************************************************************************)
Thm_C17 ==
    [][/\ TurnStarted =>
            /\ input_items' = input_items \o <<UserItem(UserText)>>
            /\ current_agent' = current_agent
       /\ (pc = "await" /\ pc' = "await") =>
            /\ input_items' = input_items
            /\ current_agent' = current_agent
       /\ TurnCompleted =>
            /\ IsPrefix(input_items, input_items')
            /\ Last(input_items) = UserItem(UserText)
            /\ Len(input_items') = Len(input_items) + ItemsOf(last_actions', Len(last_actions'))
            /\ \A k \in DOMAIN NewItems : NewItems[k].kind # "user"
            /\ NewItems # <<>> => NewItems[1].agent = current_agent
       /\ TurnAborted =>
            /\ input_items' = input_items
            /\ Last(input_items) = UserItem(UserText)
            /\ current_agent' = current_agent
       /\ pc \in {"failed", "done"} => UNCHANGED vars]_vars

Wit_C17 ==
    /\ pc = "input"
    /\ Len(input_items) = 6
    /\ input_items[1].kind = "user"
    /\ input_items[2].kind = "handoff"
    /\ input_items[3].kind = "user"
    /\ input_items[4].agent = beneficiary_agent
    /\ input_items[4].kind = "message"
    /\ input_items[5].kind = "user"
    /\ input_items[6].kind = "handoff"

(***************************************************************************)
(* C18: a dispatched tool assigns the context's account id before it calls *)
(* its manager: after a completed turn the account id is the account named *)
(* by the turn's last dispatched tool call, also when that call failed     *)
(* with a ToolExecutionError.                                              *)
(***************************************************************************)
Thm_C18 ==
    [][TurnCompleted =>
        \A j \in DOMAIN NewItems :
            (/\ NewItems[j].kind = "tool_output"
             /\ NewItems[j].status \in {"ok", "ToolExecutionError"}
             /\ \A k \in DOMAIN NewItems :
                    k > j => NewItems[k].status \notin {"ok", "ToolExecutionError"}
                             \/ NewItems[k].kind # "tool_output")
            => /\ NewItems[j - 1].kind = "tool_call"
               /\ context' = NewItems[j - 1].args.account_id]_vars

Wit_C18 ==
    /\ pc = "input"
    /\ Len(input_items) = 6
    /\ IsCall(input_items[3], "open_investment", "42")
    /\ IsCall(input_items[5], "close_investment", "7")
    /\ input_items[6].status = "ToolExecutionError"
    /\ context = "7"
    /\ Len(investments["42"]) = 1

(***************************************************************************)
(* C19: a Handoff, applied or rejected, leaves the context's account id    *)
(* and both stores unchanged: no Handoff action changes the world it is    *)
(* applied to, and a turn made of Handoff actions only ends with the       *)
(* account id and the stores it started with.                              *)
(***************************************************************************)
Thm_C19 ==
    [][/\ Applies("Handoff") => UNCHANGED <<context, beneficiaries, investments, next_id>>
       /\ (TurnCompleted \/ TurnAborted) =>
        LET acts == Applied
        IN /\ \A i \in DOMAIN acts :
                acts[i].type = "Handoff" => WorldAt(i) = WorldBefore(i)
           /\ (\A i \in DOMAIN acts : acts[i].type = "Handoff") =>
                /\ context' = turn_world.account_id
                /\ beneficiaries' = turn_world.beneficiaries
                /\ investments' = turn_world.investments
                /\ next_id' = turn_world.next_id]_vars

Wit_C19 ==
    /\ pc = "input"
    /\ Len(input_items) = 6
    /\ context = "7"
    /\ current_agent = supervisor_agent
    /\ IsCall(input_items[3], "list_beneficiaries", "7")
    /\ input_items[5].kind = "user"
    /\ IsHandoffTo(6, supervisor_agent)
    /\ last_actions = <<Handoff(supervisor_agent)>>

UniqueIds(recs) == \A j, k \in DOMAIN recs : recs[j].id = recs[k].id => j = k

(***************************************************************************)
(* C20: record ids are unique within each account of each store, and       *)
(* listing an account without records returns an empty sequence, not an    *)
(* error.                                                                  *)
(***************************************************************************)
Thm_C20 ==
    /\ \A acct \in Accounts :
          /\ UniqueIds(beneficiaries[acct])
          /\ UniqueIds(investments[acct])
          /\ beneficiaries[acct] = <<>> =>
                list_beneficiaries(CurrentWorld, [account_id |-> acct]).result = Ok(<<>>)
          /\ investments[acct] = <<>> =>
                list_investments(CurrentWorld, [account_id |-> acct]).result = Ok(<<>>)
    /\ \A j \in DOMAIN input_items :
          (/\ input_items[j].kind = "tool_output"
           /\ input_items[j].name \in {"list_beneficiaries", "list_investments"}
           /\ input_items[j].status # "UnknownTool")
          => /\ input_items[j].status = "ok"
             /\ UniqueIds(input_items[j].value)

Wit_C20 ==
    /\ pc = "input"
    /\ Len(beneficiaries["42"]) = 2
    /\ beneficiaries["42"][1].id # beneficiaries["42"][2].id
    /\ beneficiaries["7"] = <<>>
    /\ investments["42"] = <<>>

====
